---------------------------- MODULE Spec2Model ----------------------------
(***************************************************************************)
(* A model of bfem, an interpreter for Brainfuck with named aliases:       *)
(* the tape (src/src/tape.rs), the parser and the run-length optimiser     *)
(* (src/src/parser.rs) and the tree-walking executor (src/src/program.rs). *)
(*                                                                         *)
(* u128 values (pointer, counts, addresses) are represented by their       *)
(* signed residues: a non-negative integer stands for itself and -k        *)
(* stands for 2^128 - k, the value a wrapping subtraction leaves.  The     *)
(* unsigned order on residues is ULt.  An arithmetic overflow panics in a  *)
(* build with overflow checks (debug) and wraps in one without (release);  *)
(* the operations take the build's choice as the parameter chk.            *)
(***************************************************************************)
EXTENDS Integers, Sequences, FiniteSets, TLC

VARIABLES
    tape,       \* Tape under SpecCell / SpecTape
    aliases,    \* Program.aliases (BiMap<String, u128>) under SpecTape
    last,       \* the last tape call: its name, argument, the tape before and the result
    alive,      \* FALSE once the process has panicked
    nops,       \* number of calls made so far (capped by MaxOps); under SpecRun the keyboard's byte
    src,        \* Parser.src under SpecParse / SpecEquiv
    parsed,     \* result of Parser::parse
    mRaw,       \* execution of the unoptimised tree
    mOpt,       \* execution of the optimised tree
    prog,       \* the Program of Commands::Run under SpecRun
    flag        \* DisableFlags

tapeVars == <<tape, aliases, last, alive, nops>>
parseVars == <<src, parsed>>
runVars == <<mRaw, mOpt, prog>>
vars == <<tape, aliases, last, alive, nops, src, parsed, mRaw, mOpt, prog, flag>>

\* Option::None of an integer-valued Option (no value of the model is -1 where an Option is read)
None == -1
\* the value of a variable the specification at hand does not use
Idle == [status |-> "idle"]

---------------------------------------------------------------------------
(* Bounds of the model *)

MaxSize == 3        \* largest initial tape size (flags.tape_size)
MaxCount == 4       \* largest movement count handed to left / right
MaxOps == 3         \* number of tape calls explored from a fresh tape
MaxTapeLen == 12    \* the Append policy stops growing the tape here
MaxSrcLen == 4      \* longest source text handed to the parser
MaxProg == 3        \* most tokens of a program that is executed
MaxRunSize == 2     \* largest initial tape size of an executed program

(* Program constants *)
U8MAX == 255
U8Mod == 256

TapeModes == {"Circular", "Append", "Panic"}
CellModes == {"Circular", "Nothing", "Panic"}
Bytes == 0..U8MAX

---------------------------------------------------------------------------
(* Unsigned arithmetic on residues *)

\* a < b as u128 values
ULt(a, b) == IF (a < 0) = (b < 0) THEN a < b ELSE b < 0
UGe(a, b) == ~ULt(a, b)

\* u8::overflowing_add / overflowing_sub: (wrapped value, overflow flag)
OverflowingAddU8(v, n) == [val |-> (v + n) % U8Mod, overflow |-> v + n > U8MAX]
OverflowingSubU8(v, n) == [val |-> (v - n + U8Mod) % U8Mod, overflow |-> v < n]

\* u8::checked_add / checked_sub: None on overflow
CheckedAddU8(v, n) == IF v + n > U8MAX THEN None ELSE v + n
CheckedSubU8(v, n) == IF v - n < 0 THEN None ELSE v - n
UnwrapOr(x, d) == IF x = None THEN d ELSE x

---------------------------------------------------------------------------
(* Tape: src/src/tape.rs *)

zeros(size) == [i \in 1..size |-> 0]

TapeNew(tape_size, tape_mode, cell_mode) ==
    [size |-> tape_size, cells |-> zeros(tape_size),
     tape_behaviour |-> tape_mode, cell_behaviour |-> cell_mode,
     pointer |-> 0, shift |-> 0]

Ok(t) == [t |-> t, r |-> "ok"]
Err(t) == [t |-> t, r |-> "err"]
Panicked(t) == [t |-> t, r |-> "panic"]

\* cells[address as usize] is inside the vector
IndexOk(t, address) == address >= 0 /\ address < Len(t.cells)

\* self.cells[self.pointer as usize] = value
StoreAtPointer(t, value) ==
    [t EXCEPT !.cells = [t.cells EXCEPT ![t.pointer + 1] = value]]

realign(t) == [t EXCEPT !.pointer = 0]

clear(t) == [t EXCEPT !.cells = zeros(t.size)]

set_pointer(t, value) == [t EXCEPT !.pointer = value]

size(t) == Len(t.cells)

\* get_value: the value, or None when the index panics
get_value(t) == IF IndexOk(t, t.pointer) THEN t.cells[t.pointer + 1] ELSE None

get_value_at_index(t, address) ==
    IF IndexOk(t, address) THEN t.cells[address + 1] ELSE None

\* add as it would be if it ignored cell_behaviour and always wrapped
addAlwaysWraps(t, count) ==
    IF ~IndexOk(t, t.pointer) THEN Panicked(t)
    ELSE Ok(StoreAtPointer(t, (get_value(t) + count) % U8Mod))

add(t, count) ==
    IF ~IndexOk(t, t.pointer) THEN Panicked(t)
    ELSE LET value == t.cells[t.pointer + 1] IN
         CASE t.cell_behaviour = "Circular" ->
                Ok(StoreAtPointer(t, OverflowingAddU8(value, count).val))
           [] t.cell_behaviour = "Nothing" ->
                Ok(StoreAtPointer(t, UnwrapOr(CheckedAddU8(value, count), U8MAX)))
           [] t.cell_behaviour = "Panic" ->
                LET res == OverflowingAddU8(value, count) IN
                IF res.overflow THEN Err(t) ELSE Ok(StoreAtPointer(t, res.val))

sub(t, count) ==
    IF ~IndexOk(t, t.pointer) THEN Panicked(t)
    ELSE LET value == t.cells[t.pointer + 1] IN
         CASE t.cell_behaviour = "Circular" ->
                Ok(StoreAtPointer(t, OverflowingSubU8(value, count).val))
           [] t.cell_behaviour = "Nothing" ->
                Ok(StoreAtPointer(t, UnwrapOr(CheckedSubU8(value, count), 0)))
           [] t.cell_behaviour = "Panic" ->
                LET res == OverflowingSubU8(value, count) IN
                IF res.overflow THEN Err(t) ELSE Ok(StoreAtPointer(t, res.val))

\* The Circular branch, which left and right share word for word:
\*   if pointer >= count { pointer -= count }
\*   else { pointer = cells.len() - (count - pointer) }
\* cells.len() - (count - pointer) underflows when count - pointer > len.
CircularMove(t, count, chk) ==
    IF UGe(t.pointer, count)
    THEN Ok([t EXCEPT !.pointer = t.pointer - count])
    ELSE LET back == count - t.pointer IN
         IF ULt(Len(t.cells), back) /\ chk
         THEN Panicked(t)
         ELSE Ok([t EXCEPT !.pointer = Len(t.cells) - back])

\* left as it would be if Append prepended only the cells the move lacks
leftAppendByDeficit(t, count, chk) ==
    CASE t.tape_behaviour = "Circular" -> CircularMove(t, count, chk)
      [] t.tape_behaviour = "Append" ->
            IF UGe(t.pointer, count)
            THEN Ok([t EXCEPT !.pointer = t.pointer - count])
            ELSE Ok([t EXCEPT !.pointer = 0,
                              !.cells = zeros(count - t.pointer) \o t.cells])
      [] t.tape_behaviour = "Panic" ->
            IF ULt(t.pointer, count) THEN Err(t)
            ELSE Ok([t EXCEPT !.pointer = t.pointer - count])

left(t, count, chk) ==
    CASE t.tape_behaviour = "Circular" -> CircularMove(t, count, chk)
      [] t.tape_behaviour = "Append" ->
            IF UGe(t.pointer, count)
            THEN Ok([t EXCEPT !.pointer = t.pointer - count])
            ELSE Ok([t EXCEPT !.pointer = 0,
                              !.cells = zeros(count) \o t.cells])
      [] t.tape_behaviour = "Panic" ->
            \* overflowing_sub: overflow iff pointer < count
            IF ULt(t.pointer, count) THEN Err(t)
            ELSE Ok([t EXCEPT !.pointer = t.pointer - count])

right(t, count, chk) ==
    CASE t.tape_behaviour = "Circular" -> CircularMove(t, count, chk)
      [] t.tape_behaviour = "Append" ->
            Ok([t EXCEPT !.pointer = t.pointer + count,
                         !.cells = t.cells \o zeros(count)])
      [] t.tape_behaviour = "Panic" ->
            \* overflowing_add cannot overflow below 2^128; pointer > self.size
            IF ULt(t.size, t.pointer + count) THEN Err(t)
            ELSE Ok([t EXCEPT !.pointer = t.pointer + count])

---------------------------------------------------------------------------
(* Alias table: Program.aliases, a BiMap<String, u128>, as a set of        *)
(* <<name, address>> pairs                                                 *)

AliasNames == {"a", "b"}

contains_right(al, index) == \E p \in al : p[2] = index
contains_left(al, key) == \E p \in al : p[1] = key
get_by_left(al, key) == (CHOOSE p \in al : p[1] = key)[2]

\* BiMap::insert overwrites any pair that shares the left or the right value
BiInsert(al, key, index) ==
    {p \in al : p[1] # key /\ p[2] # index} \cup {<<key, index>>}

\* the scan of assign_alias_address as it would be if it skipped nonzero
\* cells only
RECURSIVE ScanDownNonzeroOnly(_, _, _)
ScanDownNonzeroOnly(t, al, index) ==
    IF ~IndexOk(t, index) THEN None
    ELSE IF get_value_at_index(t, index) # 0
         THEN ScanDownNonzeroOnly(t, al, index - 1)
         ELSE index

\* The downward scan of assign_alias_address from index: the first address
\* whose cell is zero and which no name claims, or None when the scan
\* panics.  At index 0 a further index -= 1 underflows: a checked build
\* panics there, an unchecked one wraps and panics on the next indexing.
RECURSIVE ScanDown(_, _, _)
ScanDown(t, al, index) ==
    IF ~IndexOk(t, index) THEN None
    ELSE IF get_value_at_index(t, index) # 0 \/ contains_right(al, index)
         THEN ScanDown(t, al, index - 1)
         ELSE index

\* assign_alias_address: [al, index], index = None when it panics
assign_alias_address(t, al, key) ==
    LET index == ScanDown(t, al, size(t) - 1) IN
    IF index = None THEN [al |-> al, index |-> None]
    ELSE [al |-> BiInsert(al, key, index), index |-> index]

\* run_prealloc over the names in the order the HashSet yields them
RECURSIVE run_prealloc(_, _, _)
run_prealloc(t, al, names) ==
    IF names = <<>> THEN [al |-> al, r |-> "ok"]
    ELSE LET a == assign_alias_address(t, al, Head(names)) IN
         IF a.index = None THEN [al |-> al, r |-> "panic"]
         ELSE run_prealloc(t, a.al, Tail(names))

\* The orders in which a set of names can be iterated
Orders(S) == {s \in [1..Cardinality(S) -> S] : \A i, j \in DOMAIN s : i # j => s[i] # s[j]}

\* Goto as it would be if, without pre-allocation, it assigned an address
\* on every execution
GotoAlwaysAssigns(t, al, key, disable_alloc) ==
    IF disable_alloc
    THEN LET a == assign_alias_address(t, al, key) IN
         IF a.index = None THEN [t |-> t, al |-> al, r |-> "panic"]
         ELSE [t |-> set_pointer(t, a.index), al |-> a.al, r |-> "ok"]
    ELSE IF contains_left(al, key)
         THEN [t |-> set_pointer(t, get_by_left(al, key)), al |-> al, r |-> "ok"]
         ELSE [t |-> t, al |-> al, r |-> "err"]

\* run_one, Instruction::Goto(key): [t, al, r]
Goto(t, al, key, disable_alloc) ==
    IF contains_left(al, key)
    THEN [t |-> set_pointer(t, get_by_left(al, key)), al |-> al, r |-> "ok"]
    ELSE IF disable_alloc
         THEN LET a == assign_alias_address(t, al, key) IN
              IF a.index = None THEN [t |-> t, al |-> al, r |-> "panic"]
              ELSE [t |-> set_pointer(t, a.index), al |-> a.al, r |-> "ok"]
         ELSE [t |-> t, al |-> al, r |-> "err"]

---------------------------------------------------------------------------
(* SpecTape: the tape's operations called in any order on a fresh tape,    *)
(* after Program::setup                                                    *)

NoCall == [op |-> "new", n |-> 0, pre |-> Idle, r |-> "ok"]
NoFlags == [disable_aliases |-> FALSE, disable_optimise |-> FALSE, disable_alloc |-> FALSE]

InitTape ==
    /\ \E s \in 1..MaxSize, tm \in TapeModes, cm \in CellModes :
          tape = TapeNew(s, tm, cm)
    /\ \E da \in BOOLEAN : flag = [NoFlags EXCEPT !.disable_alloc = da]
    /\ aliases = {}
    /\ last = NoCall
    /\ alive = TRUE
    /\ nops = 0
    /\ src = <<>> /\ parsed = Idle /\ mRaw = Idle /\ mOpt = Idle /\ prog = Idle

Called(op, n, res) ==
    /\ tape' = res.t
    /\ last' = [op |-> op, n |-> n, pre |-> tape, r |-> res.r]
    /\ alive' = (res.r # "panic")
    /\ nops' = nops + 1

CanCall == alive /\ last.op # "new" /\ nops < MaxOps

\* Program::setup: pre-allocation of the parser's alias names, unless disabled
Setup ==
    /\ alive /\ last.op = "new"
    /\ \E S \in (IF flag.disable_alloc THEN {{}} ELSE SUBSET AliasNames) :
       \E names \in Orders(S) :
          LET res == IF flag.disable_alloc THEN [al |-> aliases, r |-> "ok"]
                     ELSE run_prealloc(tape, aliases, names) IN
          /\ aliases' = res.al
          /\ alive' = (res.r # "panic")
          /\ last' = [op |-> "setup", n |-> Len(names), pre |-> tape, r |-> res.r]
    /\ UNCHANGED <<tape, nops, parseVars, runVars, flag>>

CellCounts == {1, U8MAX}

TapeAdd ==
    /\ CanCall
    /\ \E n \in CellCounts : Called("add", n, add(tape, n))
    /\ UNCHANGED <<aliases, parseVars, runVars, flag>>

TapeSub ==
    /\ CanCall
    /\ \E n \in CellCounts : Called("sub", n, sub(tape, n))
    /\ UNCHANGED <<aliases, parseVars, runVars, flag>>

TapeLeft ==
    /\ CanCall
    /\ \E n \in 0..MaxCount, chk \in BOOLEAN : Called("left", n, left(tape, n, chk))
    /\ UNCHANGED <<aliases, parseVars, runVars, flag>>

TapeRight ==
    /\ CanCall
    /\ \E n \in 0..MaxCount, chk \in BOOLEAN : Called("right", n, right(tape, n, chk))
    /\ UNCHANGED <<aliases, parseVars, runVars, flag>>

TapeClear ==
    /\ CanCall
    /\ Called("clear", 0, Ok(clear(tape)))
    /\ UNCHANGED <<aliases, parseVars, runVars, flag>>

TapeRealign ==
    /\ CanCall
    /\ Called("realign", 0, Ok(realign(tape)))
    /\ UNCHANGED <<aliases, parseVars, runVars, flag>>

TapeGoto ==
    /\ CanCall
    /\ \E key \in AliasNames :
          /\ flag.disable_alloc \/ contains_left(aliases, key)
          /\ LET res == Goto(tape, aliases, key, flag.disable_alloc) IN
             /\ Called("goto", 0, [t |-> res.t, r |-> res.r])
             /\ aliases' = res.al
    /\ UNCHANGED <<parseVars, runVars, flag>>

NextTape ==
    \/ Setup
    \/ TapeAdd
    \/ TapeSub
    \/ TapeLeft
    \/ TapeRight
    \/ TapeClear
    \/ TapeRealign
    \/ TapeGoto

SpecTape == InitTape /\ [][NextTape]_vars

---------------------------------------------------------------------------
(* SpecCell: one add or sub, for every cell value and every count          *)

\* The pointer's cell holds any byte, every other cell holds 1
InitCell ==
    /\ \E p \in 0..(MaxSize - 1), v \in Bytes, cm \in CellModes :
          tape = [TapeNew(MaxSize, "Circular", cm) EXCEPT
                    !.pointer = p,
                    !.cells = [i \in 1..MaxSize |-> IF i = p + 1 THEN v ELSE 1]]
    /\ flag = NoFlags
    /\ aliases = {}
    /\ last = NoCall
    /\ alive = TRUE
    /\ nops = 0
    /\ src = <<>> /\ parsed = Idle /\ mRaw = Idle /\ mOpt = Idle /\ prog = Idle

CellAdd ==
    /\ alive /\ nops = 0
    /\ \E n \in Bytes : Called("add", n, add(tape, n))
    /\ UNCHANGED <<aliases, parseVars, runVars, flag>>

CellSub ==
    /\ alive /\ nops = 0
    /\ \E n \in Bytes : Called("sub", n, sub(tape, n))
    /\ UNCHANGED <<aliases, parseVars, runVars, flag>>

NextCell ==
    \/ CellAdd
    \/ CellSub

SpecCell == InitCell /\ [][NextCell]_vars

---------------------------------------------------------------------------
(* Properties of the tape *)

Mod(a, m) == ((a % m) + m) % m
Min(a, b) == IF a < b THEN a ELSE b
Max(a, b) == IF a > b THEN a ELSE b

Moved == last.op \in {"left", "right"}
PreInside == IndexOk(last.pre, last.pre.pointer)
\* where the move asks the pointer to go
Target == IF last.op = "left" THEN last.pre.pointer - last.n
          ELSE last.pre.pointer + last.n

\* C2: after every tape operation or Goto that has returned, with or
\* without a fault, the pointer is inside the tape: 0 <= pointer < cells.len().
C2_PointerInsideTape ==
    (alive /\ last.op # "new") => IndexOk(tape, tape.pointer)

\* C3: under the Circular tape policy, from a pointer p inside the tape,
\* left(n) leaves pointer = (p - n) mod len and right(n) leaves
\* pointer = (p + n) mod len, and the cells are unchanged.
C3_CircularWrapsBothWays ==
    (Moved /\ last.pre.tape_behaviour = "Circular" /\ PreInside) =>
        /\ last.r = "ok"
        /\ tape.pointer = Mod(Target, Len(last.pre.cells))
        /\ tape.cells = last.pre.cells

\* C6: add(n) and sub(n) follow the cell policy for every cell value v and
\* count n: Circular stores (v +- n) mod 256; Nothing stores the result
\* clamped to 0..255 and never fails; Panic fails exactly when the result
\* leaves 0..255, with the cell unmodified, and otherwise stores it.  No
\* other cell, nor the pointer, changes.
C6_CellArithmetic ==
    (last.op \in {"add", "sub"} /\ PreInside) =>
        LET pre == last.pre
            v == pre.cells[pre.pointer + 1]
            exact == IF last.op = "add" THEN v + last.n ELSE v - last.n
            now == tape.cells[pre.pointer + 1]
        IN  /\ tape.pointer = pre.pointer
            /\ Len(tape.cells) = Len(pre.cells)
            /\ \A i \in DOMAIN pre.cells : i # pre.pointer + 1 => tape.cells[i] = pre.cells[i]
            /\ pre.cell_behaviour = "Circular" => (last.r = "ok" /\ now = Mod(exact, U8Mod))
            /\ pre.cell_behaviour = "Nothing" => (last.r = "ok" /\ now = Min(Max(exact, 0), U8MAX))
            /\ pre.cell_behaviour = "Panic" =>
                  IF exact > U8MAX \/ exact < 0
                  THEN last.r = "err" /\ now = v
                  ELSE last.r = "ok" /\ now = exact

\* C6 witness: under Panic, add(100) on a cell holding 200 has failed and
\* the cell still holds 200.
C6_Witness ==
    /\ last.op = "add" /\ last.n = 100
    /\ last.pre.cell_behaviour = "Panic"
    /\ last.pre.cells[last.pre.pointer + 1] = 200
    /\ last.r = "err"
    /\ tape.cells[tape.pointer + 1] = 200

\* C7: under the Panic tape policy, from a pointer inside the tape, left(n)
\* and right(n) fail exactly when the target address is outside
\* [0, cells.len()), then leaving pointer and cells unmodified, and
\* otherwise move the pointer to the target.
C7_FailPolicyChecksTarget ==
    (Moved /\ last.pre.tape_behaviour = "Panic" /\ PreInside) =>
        IF IndexOk(last.pre, Target)
        THEN last.r = "ok" /\ tape = [last.pre EXCEPT !.pointer = Target]
        ELSE last.r = "err" /\ tape = last.pre

\* C8: under the Append tape policy a move that crosses a tape boundary (it
\* starts at a pointer p inside the tape) grows the tape by exactly count
\* zero cells at that boundary and ends inside the new cells: right(n) with
\* p + n >= len appends n zero cells and leaves pointer = p + n; left(n)
\* with n > p prepends n zero cells and leaves the pointer below n; the old
\* cells keep their values and order.
C8_AppendGrowsByCount ==
    (Moved /\ last.pre.tape_behaviour = "Append" /\ PreInside) =>
        LET pre == last.pre
            len == Len(pre.cells)
            n == last.n
        IN  /\ (last.op = "right" /\ pre.pointer + n >= len) =>
                  /\ last.r = "ok"
                  /\ Len(tape.cells) = len + n
                  /\ tape.pointer = pre.pointer + n
                  /\ tape.pointer >= len /\ tape.pointer < len + n
                  /\ \A i \in 1..len : tape.cells[i] = pre.cells[i]
                  /\ \A i \in (len + 1)..(len + n) : tape.cells[i] = 0
            /\ (last.op = "left" /\ n > pre.pointer) =>
                  /\ last.r = "ok"
                  /\ Len(tape.cells) = len + n
                  /\ tape.pointer >= 0 /\ tape.pointer < n
                  /\ \A i \in 1..n : tape.cells[i] = 0
                  /\ \A i \in 1..len : tape.cells[n + i] = pre.cells[i]

\* C8 witness: a left move under Append from pointer 1 by more than 1, on a
\* tape holding a nonzero cell, has prepended cells.
C8_Witness ==
    /\ last.op = "left" /\ last.pre.tape_behaviour = "Append"
    /\ last.pre.pointer = 1 /\ last.n > 1
    /\ \E i \in DOMAIN last.pre.cells : last.pre.cells[i] # 0
    /\ Len(tape.cells) = Len(last.pre.cells) + last.n

\* C15: clear() sets every cell to zero and changes neither the number of
\* cells nor the pointer, also on a tape that Append moves have grown.
C15_ClearKeepsSize ==
    last.op = "clear" =>
        /\ Len(tape.cells) = Len(last.pre.cells)
        /\ \A i \in DOMAIN tape.cells : tape.cells[i] = 0
        /\ tape.pointer = last.pre.pointer

\* C21: under the Append tape policy a left(n) or right(n) whose target
\* address is inside [0, cells.len()) moves the pointer to the target and
\* leaves the number of cells and every cell as they were.
C21_AppendGrowsOnlyAtBoundary ==
    (/\ Moved
     /\ last.pre.tape_behaviour = "Append"
     /\ IndexOk(last.pre, Target)) =>
        /\ last.r = "ok"
        /\ tape.pointer = Target
        /\ tape.cells = last.pre.cells

---------------------------------------------------------------------------
(* Properties of the alias table under SpecTape *)

\* every bound name has one address and every bound address one name
OneToOne(al) == \A p, q \in al : (p[1] = q[1]) = (p[2] = q[2])

\* C12: through pre-allocation, lazy allocation and the tape operations in
\* between, the alias table stays one-to-one (each bound name has exactly one
\* address, no address has two names), and no step removes or changes a
\* binding: a bound name keeps its address.
C12_AliasTableBijective ==
    /\ [](OneToOne(aliases))
    /\ [][\A p \in aliases : p \in aliases']_vars

\* C12 witness: without pre-allocation, three calls have been made, the
\* last one a Goto, and both names are bound.
C12_Witness ==
    /\ flag.disable_alloc
    /\ last.op = "goto" /\ nops = MaxOps
    /\ Cardinality(aliases) = Cardinality(AliasNames)

---------------------------------------------------------------------------
(* SpecAlias: assign_alias_address on every small tape content and alias   *)
(* table, for each name that is not bound yet                              *)

\* The alias tables the program can hold on tape t: every name at most one
\* address, every address at most one name, every address inside the tape
AliasTables(t) ==
    {al \in SUBSET (AliasNames \X (0..(Len(t.cells) - 1))) :
        \A p, q \in al : (p[1] = q[1]) = (p[2] = q[2])}

InitAlias ==
    /\ \E s \in 1..MaxSize, cells \in [1..MaxSize -> {0, 1}] :
          tape = [TapeNew(s, "Circular", "Circular") EXCEPT
                    !.cells = [i \in 1..s |-> cells[i]]]
    /\ aliases \in AliasTables(tape)
    /\ flag = [NoFlags EXCEPT !.disable_alloc = TRUE]
    /\ last = NoCall
    /\ alive = TRUE
    /\ nops = 0
    /\ src = <<>> /\ parsed = Idle /\ mRaw = Idle /\ mOpt = Idle /\ prog = Idle

\* assign_alias_address(key), as run_prealloc and Goto call it: for a name
\* with no binding
AssignAlias ==
    /\ alive
    /\ \E key \in AliasNames :
          /\ ~contains_left(aliases, key)
          /\ LET a == assign_alias_address(tape, aliases, key) IN
             /\ aliases' = a.al
             /\ alive' = (a.index # None)
             /\ last' = [op |-> "assign", n |-> 0, pre |-> tape,
                         r |-> IF a.index = None THEN "panic" ELSE "ok",
                         key |-> key, al |-> aliases, index |-> a.index]
    /\ nops' = nops + 1
    /\ UNCHANGED <<tape, parseVars, runVars, flag>>

NextAlias ==
    \/ AssignAlias

SpecAlias == InitAlias /\ [][NextAlias]_vars

\* The addresses of tape t that hold zero and that no name of al other
\* than key claims
Eligible(t, al, key) ==
    {i \in 0..(Len(t.cells) - 1) :
        /\ t.cells[i + 1] = 0
        /\ ~\E p \in al : p[2] = i /\ p[1] # key}

MaxOf(S) == CHOOSE x \in S : \A y \in S : y <= x

\* C11: when some address of the tape holds zero and is not bound to
\* another name, assign_alias_address(name) returns the highest such
\* address and binds name to it, leaving the other bindings and the tape
\* as they were.
C11_AssignsHighestEligible ==
    (last.op = "assign" /\ Eligible(last.pre, last.al, last.key) # {}) =>
        LET best == MaxOf(Eligible(last.pre, last.al, last.key)) IN
        /\ last.r = "ok"
        /\ last.index = best
        /\ aliases = last.al \cup {<<last.key, best>>}
        /\ tape = last.pre

\* C11 witness: on three cells with a nonzero value only at index 1 and
\* "a" bound to 2, "b" has been bound to 0.
C11_Witness ==
    /\ last.op = "assign" /\ last.key = "b"
    /\ last.pre.cells = <<0, 1, 0>>
    /\ last.al = {<<"a", 2>>}
    /\ aliases = {<<"a", 2>>, <<"b", 0>>}

\* C23: assign_alias_address returns, for every tape content and alias
\* table, an address inside [0, tape size): its scan never goes below 0 nor
\* indexes outside the tape, also when no address is both zero and
\* unclaimed.
C23_AssignAlwaysReturnsAnAddress ==
    last.op = "assign" =>
        /\ last.r = "ok"
        /\ IndexOk(last.pre, last.index)

---------------------------------------------------------------------------
(* Instructions: src/src/program.rs.  A spanned instruction                *)
(* (SourceSpan, Instruction) is one record: off and len are the span,      *)
(* count the count of Add / Subtract / Left / Right, body the children of  *)
(* a Loop, name the key of a Goto.  Source text is a sequence of           *)
(* one-character strings.                                                  *)

Instr(off, len, kind, count, body, name) ==
    [off |-> off, len |-> len, kind |-> kind, count |-> count, body |-> body, name |-> name]

---------------------------------------------------------------------------
(* Parser: src/src/parser.rs *)

NoChar == ""
\* self.src.chars().nth(index): NoChar for None
nth(s, index) == IF index < Len(s) THEN s[index + 1] ELSE NoChar

is_whitespace(c) == c \in {" ", "\n"}

ParsePanic(why, index) ==
    [st |-> "panic", why |-> why, index |-> index, node |-> Idle, instrs |-> <<>>, aliases |-> {}]

\* The whitespace loop of parse_one: the index of the first character at or
\* after index that is not whitespace, Len(s) when there is none (where
\* nth(..).unwrap() panics).
RECURSIVE SkipWhitespace(_, _)
SkipWhitespace(s, index) ==
    IF index < Len(s) /\ is_whitespace(s[index + 1])
    THEN SkipWhitespace(s, index + 1)
    ELSE index

\* The name loop of the alias branch: the index of the first "}" at or after
\* index, Len(s) when there is none (where nth(..).unwrap() panics).
RECURSIVE FindAliasEnd(_, _)
FindAliasEnd(s, index) ==
    IF index < Len(s) /\ s[index + 1] # "}"
    THEN FindAliasEnd(s, index + 1)
    ELSE index

LeafKind(c) ==
    CASE c = "+" -> "Add"
      [] c = "-" -> "Subtract"
      [] c = ">" -> "Right"
      [] c = "<" -> "Left"
      [] c = "." -> "Output"
      [] c = "," -> "Input"

RECURSIVE parse_one(_, _, _, _)
RECURSIVE ParseLoopBody(_, _, _, _, _)

\* parse_one from self.index = index0 with self.aliases = al:
\* [st, why, index, node, aliases]
parse_one(s, index0, al, disable_aliases) ==
    IF nth(s, index0) = NoChar THEN ParsePanic("unwrap_none", index0)
    ELSE
    LET index == SkipWhitespace(s, index0) IN
    IF nth(s, index) = NoChar THEN ParsePanic("unwrap_none", index)
    ELSE
    LET character == s[index + 1] IN
    CASE character \in {"+", "-", ">", "<", ".", ","} ->
            [st |-> "ok", why |-> "", index |-> index + 1,
             node |-> Instr(index, 1, LeafKind(character),
                            IF character \in {".", ","} THEN 0 ELSE 1, <<>>, <<>>),
             instrs |-> <<>>, aliases |-> al]
      [] character = "[" ->
            LET b == ParseLoopBody(s, index + 1, al, disable_aliases, <<>>) IN
            IF b.st = "panic" THEN b
            ELSE [st |-> "ok", why |-> "", index |-> b.index + 1,
                  node |-> Instr(index, b.index + 1 - index, "Loop", 0, b.instrs, <<>>),
                  instrs |-> <<>>, aliases |-> b.aliases]
      [] character = "{" /\ ~disable_aliases ->
            LET end == FindAliasEnd(s, index + 1) IN
            IF nth(s, end) = NoChar THEN ParsePanic("unwrap_none", end)
            ELSE LET name == SubSeq(s, index + 2, end) IN
                 [st |-> "ok", why |-> "", index |-> end + 1,
                  node |-> Instr(index, end + 1 - index, "Goto", 0, <<>>, name),
                  instrs |-> <<>>, aliases |-> al \cup {name}]
      [] OTHER -> ParsePanic("unrecognised", index)

\* The loop of the "[" branch, entered with self.index = index:
\*   character = nth(index).unwrap(); while character != ']' { parse_one ... }
ParseLoopBody(s, index, al, disable_aliases, acc) ==
    IF nth(s, index) = NoChar THEN ParsePanic("unwrap_none", index)
    ELSE IF s[index + 1] = "]"
    THEN [st |-> "ok", why |-> "", index |-> index, node |-> Idle, instrs |-> acc, aliases |-> al]
    ELSE LET r == parse_one(s, index, al, disable_aliases) IN
         IF r.st = "panic" THEN r
         ELSE ParseLoopBody(s, r.index, r.aliases, disable_aliases, Append(acc, r.node))

\* is_instruction_consecutive as it would be if it left Input and Output
\* out of its list
is_instruction_consecutiveIO(instruction) ==
    instruction.kind \notin {"Goto", "Loop"}

is_instruction_consecutive(instruction) ==
    instruction.kind \notin {"Goto", "Input", "Output", "Loop"}

\* count as u8 for Add / Subtract, count as u128 for Left / Right
set_count(instruction, count) ==
    CASE instruction.kind \in {"Add", "Subtract"} -> [instruction EXCEPT !.count = count % U8Mod]
      [] instruction.kind \in {"Left", "Right"} -> [instruction EXCEPT !.count = count]
      [] OTHER -> instruction

is_consecutive_okay(l, r) ==
    /\ is_instruction_consecutive(l)
    /\ is_instruction_consecutive(r)
    /\ l.kind = r.kind

\* The merge window of optimise_consecutive: the inner while loop, from
\* count, for the run that starts at index (0-based).
RECURSIVE MergeWindow(_, _, _)
MergeWindow(instructions, index, count) ==
    IF /\ index + count < Len(instructions) - 1
       /\ is_consecutive_okay(instructions[index + 1], instructions[index + count + 1])
    THEN MergeWindow(instructions, index, count + 1)
    ELSE count

RECURSIVE optimise_consecutive(_)
RECURSIVE OptimiseFrom(_, _, _)

\* The outer while loop of optimise_consecutive, from index with the
\* instructions pushed so far.
OptimiseFrom(instructions, index, optimised) ==
    IF index >= Len(instructions) THEN optimised
    ELSE
    LET start == instructions[index + 1] IN
    CASE start.kind = "Loop" ->
            OptimiseFrom(instructions, index + 1,
                Append(optimised, Instr(start.off, Len(start.body), "Loop", 0,
                                        optimise_consecutive(start.body), <<>>)))
      [] start.kind = "Goto" ->
            OptimiseFrom(instructions, index + 1,
                Append(optimised, Instr(start.off, Len(start.name) + 2, "Goto", 0,
                                        <<>>, start.name)))
      [] OTHER ->
            LET count == MergeWindow(instructions, index, 1)
                merged == set_count(start, count)
            IN  OptimiseFrom(instructions, index + count,
                    Append(optimised, [merged EXCEPT !.off = start.off, !.len = count]))

optimise_consecutive(instructions) == OptimiseFrom(instructions, 0, <<>>)

---------------------------------------------------------------------------
(* SpecParse: Parser::parse on every short text, one iteration of its      *)
(* while loop per step                                                     *)

Seqs(A, n) == UNION {[1..k -> A] : k \in 0..n}

ParseAlphabet == {"+", "<", ".", ",", "[", "]", "{", "}", "a", " "}

\* Parser::new
ParserNew == [status |-> "parsing", why |-> "", index |-> 0, instructions |-> <<>>, aliases |-> {}]

InitParse ==
    /\ src \in Seqs(ParseAlphabet, MaxSrcLen)
    /\ \E da, dopt \in BOOLEAN :
          flag = [NoFlags EXCEPT !.disable_aliases = da, !.disable_optimise = dopt]
    /\ parsed = ParserNew
    /\ tape = Idle /\ aliases = {} /\ last = NoCall /\ alive = TRUE /\ nops = 0
    /\ mRaw = Idle /\ mOpt = Idle /\ prog = Idle

\* One iteration of the while loop of Parser::parse on parser state ps
ParseIteration(s, ps, disable_aliases) ==
    LET r == parse_one(s, ps.index, ps.aliases, disable_aliases) IN
    IF r.st = "panic"
    THEN [ps EXCEPT !.status = "panic", !.why = r.why, !.index = r.index]
    ELSE [ps EXCEPT !.index = r.index, !.aliases = r.aliases,
                    !.instructions = Append(ps.instructions, r.node)]

\* The end of Parser::parse: the optimiser, unless disabled
ParseReturn(ps, disable_optimise) ==
    [ps EXCEPT !.status = "ok",
               !.instructions = IF ~disable_optimise
                                THEN optimise_consecutive(ps.instructions)
                                ELSE ps.instructions]

ParseStep ==
    /\ parsed.status = "parsing"
    /\ parsed.index < Len(src)
    /\ parsed' = ParseIteration(src, parsed, flag.disable_aliases)
    /\ alive' = (parsed'.status # "panic")
    /\ UNCHANGED <<tape, aliases, last, nops, src, runVars, flag>>

ParseFinish ==
    /\ parsed.status = "parsing"
    /\ parsed.index >= Len(src)
    /\ parsed' = ParseReturn(parsed, flag.disable_optimise)
    /\ UNCHANGED <<tapeVars, src, runVars, flag>>

NextParse ==
    \/ ParseStep
    \/ ParseFinish

SpecParse == InitParse /\ [][NextParse]_vars

---------------------------------------------------------------------------
(* Properties of the parser *)

LeafChars == {"+", "-", ">", "<", ".", ","}

\* The grammar of the source text, read left to right from position i
\* (1-based) inside depth open loops: "wellformed", "unclosed_loop" (end
\* of input inside a loop), "unclosed_alias" (end of input inside an alias
\* block) or "stray" (a character no rule allows where it stands).
RECURSIVE Classify(_, _, _, _)
Classify(s, i, depth, disable_aliases) ==
    IF i > Len(s) THEN (IF depth = 0 THEN "wellformed" ELSE "unclosed_loop")
    ELSE CASE s[i] \in LeafChars \/ is_whitespace(s[i]) ->
                Classify(s, i + 1, depth, disable_aliases)
           [] s[i] = "[" -> Classify(s, i + 1, depth + 1, disable_aliases)
           [] s[i] = "]" /\ depth > 0 -> Classify(s, i + 1, depth - 1, disable_aliases)
           [] s[i] = "{" /\ ~disable_aliases ->
                LET end == FindAliasEnd(s, i) IN
                IF end >= Len(s) THEN "unclosed_alias"
                ELSE Classify(s, end + 2, depth, disable_aliases)
           [] OTHER -> "stray"

\* The text without the whitespace between its tokens
RECURSIVE Tokens(_, _)
Tokens(s, i) ==
    IF i > Len(s) THEN <<>>
    ELSE IF s[i] = "{"
         THEN LET end == FindAliasEnd(s, i) IN SubSeq(s, i, end + 1) \o Tokens(s, end + 2)
         ELSE IF is_whitespace(s[i]) THEN Tokens(s, i + 1)
         ELSE <<s[i]>> \o Tokens(s, i + 1)

KindChar(kind) ==
    CASE kind = "Add" -> "+"
      [] kind = "Subtract" -> "-"
      [] kind = "Right" -> ">"
      [] kind = "Left" -> "<"
      [] kind = "Output" -> "."
      [] kind = "Input" -> ","

\* The text an instruction tree of unit counts stands for
RECURSIVE Unparse(_)
Unparse(instructions) ==
    IF instructions = <<>> THEN <<>>
    ELSE LET h == Head(instructions) IN
         (CASE h.kind = "Loop" -> <<"[">> \o Unparse(h.body) \o <<"]">>
            [] h.kind = "Goto" -> <<"{">> \o h.name \o <<"}">>
            [] OTHER -> <<KindChar(h.kind)>>)
         \o Unparse(Tail(instructions))

ParseEnded == parsed.status \in {"ok", "panic"}

\* C9: for a text of recognised characters and whitespace with balanced
\* brackets, Parser::parse with the optimiser disabled ends without a crash
\* and yields the text's instructions in source order, one per operator
\* character and one Loop per bracket pair, whitespace skipped wherever it
\* stands.
C9_ParsesWellFormedText ==
    (/\ ParseEnded
     /\ flag.disable_optimise
     /\ Classify(src, 1, 0, flag.disable_aliases) = "wellformed") =>
        /\ parsed.status = "ok"
        /\ Unparse(parsed.instructions) = Tokens(src, 1)

\* C10: for a text whose "[" or "{" is still open at the end of input,
\* parsing ends with a parse error value: it neither crashes nor succeeds.
C10_UnclosedIsAnErrorValue ==
    (/\ ParseEnded
     /\ Classify(src, 1, 0, flag.disable_aliases) \in {"unclosed_loop", "unclosed_alias"}) =>
        parsed.status \notin {"ok", "panic"}

\* C18: for a text with a character no rule allows where it stands (a
\* character outside the recognised set, "{" with alias syntax disabled, "]"
\* with no open loop), parsing ends with an error value: it neither crashes
\* nor succeeds with the character skipped.
C18_StrayCharacterIsAnErrorValue ==
    (/\ ParseEnded
     /\ Classify(src, 1, 0, flag.disable_aliases) = "stray") =>
        parsed.status \notin {"ok", "panic"}

---------------------------------------------------------------------------
(* Executor: src/src/program.rs.  A Program is a record of its fields      *)
(* (instructions, tape, flag, aliases) and of the position of its run:     *)
(* stack holds one frame per active run_one of a Loop below the frame of   *)
(* run itself, each with its instruction list and the 1-based index of the *)
(* instruction to execute next; out is what was printed, inp what the      *)
(* keyboard still holds.                                                   *)

\* Parser::parse as a whole
RECURSIVE ParseLoop(_, _, _)
ParseLoop(s, ps, disable_aliases) ==
    IF ps.status = "parsing" /\ ps.index < Len(s)
    THEN ParseLoop(s, ParseIteration(s, ps, disable_aliases), disable_aliases)
    ELSE ps

Parse(s, fl) ==
    LET ps == ParseLoop(s, ParserNew, fl.disable_aliases) IN
    IF ps.status = "panic" THEN ps ELSE ParseReturn(ps, fl.disable_optimise)

\* print!("{}", value as char): the UTF-8 encoding of the character U+00vv
Utf8(v) == IF v < 128 THEN <<v>> ELSE <<192 + (v \div 64), 128 + (v % 64)>>

\* Program::new, Program::setup with the parser's names in the order names,
\* and the first two lines of Program::run (clear, realign)
ProgramStart(instructions, t, fl, names, input) ==
    LET pre == IF fl.disable_alloc THEN [al |-> {}, r |-> "ok"]
               ELSE run_prealloc(t, {}, names)
    IN  [instructions |-> instructions,
         tape |-> realign(clear(t)),
         flag |-> fl,
         aliases |-> pre.al,
         stack |-> <<[instrs |-> instructions, idx |-> 1]>>,
         out |-> <<>>,
         inp |-> input,
         status |-> IF pre.r = "panic" THEN "panic" ELSE "running",
         span |-> <<0, 0>>]

Top(m) == m.stack[Len(m.stack)]
AtEnd(m) == Top(m).idx > Len(Top(m).instrs)
Current(m) == Top(m).instrs[Top(m).idx]
Advance(stack) == [stack EXCEPT ![Len(stack)].idx = @ + 1]
Pop(stack) == SubSeq(stack, 1, Len(stack) - 1)

\* run's Err arm: the report carries the span of the top-level instruction
Fault(m) ==
    LET outer == m.stack[1].instrs[m.stack[1].idx] IN
    [m EXCEPT !.status = "fault", !.span = <<outer.off, outer.len>>]
Crash(m) == [m EXCEPT !.status = "panic"]

\* AfterTape as it would be if run skipped an instruction that failed
AfterTapeSkipsFault(m, res) ==
    CASE res.r = "ok" -> [m EXCEPT !.tape = res.t, !.stack = Advance(m.stack)]
      [] res.r = "err" -> [m EXCEPT !.stack = Advance(m.stack)]
      [] res.r = "panic" -> Crash(m)

\* The outcome res of a tape call ([t, r]) applied to the run
AfterTape(m, res) ==
    CASE res.r = "ok" -> [m EXCEPT !.tape = res.t, !.stack = Advance(m.stack)]
      [] res.r = "err" -> Fault(m)
      [] res.r = "panic" -> Crash(m)

\* getch has no byte to give: the Input instruction keeps polling
Blocked(m) == ~AtEnd(m) /\ Current(m).kind = "Input" /\ m.inp = <<>>

\* run_one as it would be if a Loop ran its body once before its first test
run_oneDoWhile(m, chk) ==
    IF AtEnd(m)
    THEN IF Len(m.stack) = 1 THEN [m EXCEPT !.status = "done"]
         ELSE \* a pass of a Loop body has ended: while self.tape.get_value() != 0
              LET v == get_value(m.tape) IN
              IF v = None THEN Crash(m)
              ELSE IF v # 0 THEN [m EXCEPT !.stack[Len(m.stack)].idx = 1]
              ELSE [m EXCEPT !.stack = Advance(Pop(m.stack))]
    ELSE
    LET ins == Current(m) IN
    CASE ins.kind = "Add" -> AfterTape(m, add(m.tape, ins.count))
      [] ins.kind = "Subtract" -> AfterTape(m, sub(m.tape, ins.count))
      [] ins.kind = "Left" -> AfterTape(m, left(m.tape, ins.count, chk))
      [] ins.kind = "Right" -> AfterTape(m, right(m.tape, ins.count, chk))
      [] ins.kind = "Loop" ->
            [m EXCEPT !.stack = Append(m.stack, [instrs |-> ins.body, idx |-> 1])]
      [] ins.kind = "Input" ->
            IF ~IndexOk(m.tape, m.tape.pointer) THEN Crash(m)
            ELSE [m EXCEPT !.tape = StoreAtPointer(m.tape, Head(m.inp)),
                           !.inp = Tail(m.inp),
                           !.stack = Advance(m.stack)]
      [] ins.kind = "Output" ->
            LET v == get_value(m.tape) IN
            IF v = None THEN Crash(m)
            ELSE [m EXCEPT !.out = m.out \o Utf8(v), !.stack = Advance(m.stack)]
      [] ins.kind = "Goto" ->
            LET res == Goto(m.tape, m.aliases, ins.name, m.flag.disable_alloc) IN
            IF res.r = "ok"
            THEN [m EXCEPT !.tape = res.t, !.aliases = res.al, !.stack = Advance(m.stack)]
            ELSE IF res.r = "err" THEN Fault(m) ELSE Crash(m)

\* One step of run / run_one: the next instruction of the innermost active
\* list, or the test of a while loop
run_one(m, chk) ==
    IF AtEnd(m)
    THEN IF Len(m.stack) = 1 THEN [m EXCEPT !.status = "done"]
         ELSE \* a pass of a Loop body has ended: while self.tape.get_value() != 0
              LET v == get_value(m.tape) IN
              IF v = None THEN Crash(m)
              ELSE IF v # 0 THEN [m EXCEPT !.stack[Len(m.stack)].idx = 1]
              ELSE [m EXCEPT !.stack = Advance(Pop(m.stack))]
    ELSE
    LET ins == Current(m) IN
    CASE ins.kind = "Add" -> AfterTape(m, add(m.tape, ins.count))
      [] ins.kind = "Subtract" -> AfterTape(m, sub(m.tape, ins.count))
      [] ins.kind = "Left" -> AfterTape(m, left(m.tape, ins.count, chk))
      [] ins.kind = "Right" -> AfterTape(m, right(m.tape, ins.count, chk))
      [] ins.kind = "Loop" ->
            LET v == get_value(m.tape) IN
            IF v = None THEN Crash(m)
            ELSE IF v # 0
            THEN [m EXCEPT !.stack = Append(m.stack, [instrs |-> ins.body, idx |-> 1])]
            ELSE [m EXCEPT !.stack = Advance(m.stack)]
      [] ins.kind = "Input" ->
            IF ~IndexOk(m.tape, m.tape.pointer) THEN Crash(m)
            ELSE [m EXCEPT !.tape = StoreAtPointer(m.tape, Head(m.inp)),
                           !.inp = Tail(m.inp),
                           !.stack = Advance(m.stack)]
      [] ins.kind = "Output" ->
            LET v == get_value(m.tape) IN
            IF v = None THEN Crash(m)
            ELSE [m EXCEPT !.out = m.out \o Utf8(v), !.stack = Advance(m.stack)]
      [] ins.kind = "Goto" ->
            LET res == Goto(m.tape, m.aliases, ins.name, m.flag.disable_alloc) IN
            IF res.r = "ok"
            THEN [m EXCEPT !.tape = res.t, !.aliases = res.al, !.stack = Advance(m.stack)]
            ELSE IF res.r = "err" THEN Fault(m) ELSE Crash(m)

CanStep(m) ==
    /\ m.status = "running"
    /\ ~Blocked(m)
    /\ Len(m.tape.cells) <= MaxTapeLen

---------------------------------------------------------------------------
(* SpecEquiv: one source text parsed without and with the optimiser, and   *)
(* the two programs run on equal tapes with equal input                    *)

RunTokens == {<<"+">>, <<"-">>, <<">">>, <<"<">>, <<"[">>, <<"]">>, <<".">>, <<",">>,
              <<"{", "a", "}">>}

RECURSIVE Flatten(_)
Flatten(ts) == IF ts = <<>> THEN <<>> ELSE Head(ts) \o Flatten(Tail(ts))

RunSources == {Flatten(ts) : ts \in Seqs(RunTokens, MaxProg)}
InputBytes == {0, 254}

Range(s) == {s[i] : i \in DOMAIN s}

\* disable_alloc is read only by Goto and setup, the keyboard only by Input
AllocChoices(s) == IF "{" \in Range(s) THEN BOOLEAN ELSE {FALSE}
InputChoices(s) == IF "," \in Range(s) THEN InputBytes ELSE {0}

InitEquiv ==
    /\ src \in RunSources
    /\ \E s \in 1..MaxRunSize, tm \in TapeModes, cm \in CellModes :
          tape = TapeNew(s, tm, cm)
    /\ \E da \in AllocChoices(src) : flag = [NoFlags EXCEPT !.disable_alloc = da]
    /\ parsed = ParserNew
    /\ aliases = {} /\ last = NoCall /\ alive = TRUE /\ nops = 0
    /\ mRaw = Idle /\ mOpt = Idle /\ prog = Idle

\* Program::parse, Program::setup and the start of Program::run, once with
\* disable_optimise set and once without
Load ==
    /\ parsed.status = "parsing"
    /\ LET ps == Parse(src, [flag EXCEPT !.disable_optimise = TRUE]) IN
       /\ parsed' = ps
       /\ alive' = (ps.status # "panic")
       /\ IF ps.status = "panic" THEN UNCHANGED runVars
          ELSE \E names \in Orders(ps.aliases), b \in InputChoices(src) :
                 /\ mRaw' = ProgramStart(ps.instructions, tape,
                                [flag EXCEPT !.disable_optimise = TRUE], names, <<b>>)
                 /\ mOpt' = ProgramStart(Parse(src, flag).instructions, tape,
                                flag, names, <<b>>)
                 /\ UNCHANGED prog
    /\ UNCHANGED <<tape, aliases, last, nops, src, flag>>

StepRaw ==
    /\ parsed.status = "ok"
    /\ CanStep(mRaw)
    /\ \E chk \in BOOLEAN : mRaw' = run_one(mRaw, chk)
    /\ UNCHANGED <<tapeVars, parseVars, mOpt, prog, flag>>

RunEnded(m) == m.status \in {"done", "fault", "panic"}

StepOpt ==
    /\ parsed.status = "ok"
    /\ RunEnded(mRaw)
    /\ CanStep(mOpt)
    /\ \E chk \in BOOLEAN : mOpt' = run_one(mOpt, chk)
    /\ UNCHANGED <<tapeVars, parseVars, mRaw, prog, flag>>

NextEquiv ==
    \/ Load
    \/ StepRaw
    \/ StepOpt

SpecEquiv == InitEquiv /\ [][NextEquiv]_vars

---------------------------------------------------------------------------
(* Properties of the optimiser *)

\* An instruction list without its spans: kinds, counts, nesting, order
RECURSIVE Shape(_)
Shape(instructions) ==
    [i \in DOMAIN instructions |->
        [kind |-> instructions[i].kind, count |-> instructions[i].count,
         body |-> Shape(instructions[i].body), name |-> instructions[i].name]]

Mergeable(kind) == kind \in {"Add", "Subtract", "Left", "Right"}

\* The run-length merge of a sibling list: every maximal run of adjacent
\* mergeable instructions of one kind becomes one instruction whose count is
\* the sum of the run's counts, in every Loop body as well.
RECURSIVE MergedRuns(_)
MergedRuns(instructions) ==
    IF instructions = <<>> THEN <<>>
    ELSE LET h == Head(instructions)
             rest == MergedRuns(Tail(instructions))
         IN  IF h.kind = "Loop" THEN <<[h EXCEPT !.body = MergedRuns(h.body)]>> \o rest
             ELSE IF rest # <<>> /\ Mergeable(h.kind) /\ Head(rest).kind = h.kind
             THEN <<[h EXCEPT !.count = h.count + Head(rest).count]>> \o Tail(rest)
             ELSE <<h>> \o rest

Loaded == parsed.status = "ok" /\ mRaw # Idle /\ mOpt # Idle

\* C1: the optimised and the unoptimised tree of a program, run from the
\* same zeroed tape under the same policies and input, end with the same
\* cells (values and tape length) and the same output bytes.
C1_OptimisedRunsAlike ==
    (Loaded /\ RunEnded(mRaw) /\ RunEnded(mOpt)) =>
        /\ mRaw.tape.cells = mOpt.tape.cells
        /\ mRaw.out = mOpt.out

\* C4: optimise_consecutive replaces every maximal run of adjacent Add,
\* Subtract, Left or Right instructions of one kind, the run that ends the
\* list included, by one instruction with the summed count, in the top-level
\* list and in every Loop body.
C4_MergesMaximalRuns ==
    Loaded => Shape(mOpt.instructions) = Shape(MergedRuns(mRaw.instructions))

\* C5: optimising an optimised tree returns the same tree (kinds, counts,
\* nesting, order).
C5_OptimiserIdempotent ==
    Loaded => Shape(optimise_consecutive(mOpt.instructions)) = Shape(mOpt.instructions)

---------------------------------------------------------------------------
(* SpecRun: Commands::Run on a set of programs, one step of run / run_one  *)
(* at a time.  last.n counts the passes of Loop bodies begun so far,       *)
(* last.pre is the Program before the latest step and nops is the byte the *)
(* keyboard holds for the run.                                             *)

MaxPasses == 256    \* a run is followed for at most this many loop passes

RunPrograms ==
    {<<"+", "+", "+", ".">>,
     <<",", ".">>,
     <<",", "[", "-", "]">>,
     <<",", "[", ">", "+", "<", "-", "]", ">", ".">>,
     <<".", "<", ".">>,
     <<"+", "+", "<", ".">>,
     <<"-", "-", "-", ".">>,
     <<"+", "[", "<", "]", ".">>,
     <<"+", ".", "[", ".", "[", "+", "<", "<", ".", "]", ".", "]", ".">>,
     <<",", "[", "[", "-", "-", "]", "]">>,
     <<"{", "a", "}", "+", "{", "b", "}", ".", "{", "a", "}", ".">>,
     <<"+", "[", "{", "a", "}", "+", "[", "{", "b", "}", "]", "]">>,
     <<">", "+", "[", "<", "<", "+", "]", "{", "a", "}", ".">>,
     <<"{", "a", "}", "+", "<", "<", "{", "a", "}", ".">>}

\* the bytes the keyboard gives to a program that loops on its input
LoopBytes == {0, 1, 5, U8MAX}

\* the byte getch delivers: any byte to a program without a Loop
KeyboardChoices(s) ==
    IF "," \notin Range(s) THEN {0}
    ELSE IF "[" \in Range(s) THEN LoopBytes ELSE Bytes

InitRun ==
    /\ src \in RunPrograms
    /\ \E s \in 1..MaxRunSize, tm \in TapeModes, cm \in CellModes :
          tape = TapeNew(s, tm, cm)
    /\ \E da \in AllocChoices(src), dopt \in BOOLEAN :
          flag = [NoFlags EXCEPT !.disable_alloc = da, !.disable_optimise = dopt]
    /\ parsed = ParserNew
    /\ aliases = {} /\ last = NoCall /\ alive = TRUE /\ nops = 0
    /\ mRaw = Idle /\ mOpt = Idle /\ prog = Idle

\* main, Commands::Run: Program::read_file, Program::setup and the first
\* two lines of Program::run
LoadRun ==
    /\ parsed.status = "parsing"
    /\ LET ps == Parse(src, flag) IN
       /\ parsed' = ps
       /\ IF ps.status = "panic" THEN alive' = FALSE /\ UNCHANGED <<prog, nops>>
          ELSE \E names \in Orders(ps.aliases), b \in KeyboardChoices(src) :
                 /\ prog' = ProgramStart(ps.instructions, tape, flag, names, <<b>>)
                 /\ alive' = (prog'.status # "panic")
                 /\ nops' = b
    /\ UNCHANGED <<tape, aliases, last, src, mRaw, mOpt, flag>>

\* the step from m to m2 begins a pass of a Loop body
EntersPass(m, m2) ==
    /\ m2.status = "running"
    /\ \/ Len(m2.stack) > Len(m.stack)
       \/ AtEnd(m) /\ Len(m2.stack) = Len(m.stack)

\* One step of Program::run: an instruction of the innermost active list
\* or the test of a while loop
StepRun ==
    /\ parsed.status = "ok"
    /\ CanStep(prog)
    /\ last.n < MaxPasses
    /\ \E chk \in BOOLEAN :
          /\ prog' = run_one(prog, chk)
          /\ last' = [op |-> "step",
                      n |-> last.n + (IF EntersPass(prog, prog') THEN 1 ELSE 0),
                      pre |-> prog, r |-> prog'.status]
    /\ alive' = (prog'.status # "panic")
    /\ UNCHANGED <<tape, aliases, nops, parseVars, mRaw, mOpt, flag>>

NextRun ==
    \/ LoadRun
    \/ StepRun

SpecRun == InitRun /\ [][NextRun]_vars

---------------------------------------------------------------------------
(* Properties of the executor under SpecRun *)

\* the instruction the run m is about to execute returns an Err
FaultsNow(m, chk) ==
    /\ m.status = "running" /\ ~AtEnd(m)
    /\ LET ins == Current(m) IN
       CASE ins.kind = "Add" -> add(m.tape, ins.count).r = "err"
         [] ins.kind = "Subtract" -> sub(m.tape, ins.count).r = "err"
         [] ins.kind = "Left" -> left(m.tape, ins.count, chk).r = "err"
         [] ins.kind = "Right" -> right(m.tape, ins.count, chk).r = "err"
         [] ins.kind = "Goto" ->
                Goto(m.tape, m.aliases, ins.name, m.flag.disable_alloc).r = "err"
         [] OTHER -> FALSE

\* C13: when an instruction returns an Err, at the top level or inside
\* Loops, the run ends there with a fault: the tape, the alias table and the
\* output printed so far stay as they are, and once the run has ended with a
\* fault no instruction is executed and no loop is re-tested any more.
C13_FailFast ==
    [][/\ FaultsNow(prog, TRUE) =>
            /\ prog'.status = "fault"
            /\ prog'.tape = prog.tape
            /\ prog'.out = prog.out
            /\ prog'.aliases = prog.aliases
            /\ prog'.stack = prog.stack
       /\ prog.status = "fault" => prog' = prog]_vars

\* C13 witness: a run has ended with a fault two Loops deep, after it had
\* printed output and changed the tape.
C13_Witness ==
    /\ prog.status = "fault"
    /\ Len(prog.stack) = 3
    /\ prog.out # <<>>
    /\ prog.tape.cells # zeros(Len(prog.tape.cells))

\* the next step of the run m is the test of a while loop: on reaching a
\* Loop or at the end of a pass of its body
LoopTest(m) ==
    /\ m.status = "running"
    /\ IF AtEnd(m) THEN Len(m.stack) > 1 ELSE Current(m).kind = "Loop"

\* C14: a Loop tests the current cell before every pass; on a nonzero value
\* it runs its body from the first instruction, on zero it goes on behind
\* the Loop, so that the cell it leaves is 0; the test changes neither tape
\* nor output.  `,[-]` on a typed byte v makes exactly v passes and ends
\* with every cell 0 and the pointer where it was.
C14_LoopSemantics ==
    /\ (last.op = "step" /\ LoopTest(last.pre) /\ get_value(last.pre.tape) # None) =>
          LET m == last.pre
              depth == IF AtEnd(m) THEN Len(m.stack) - 1 ELSE Len(m.stack)
              loop == m.stack[depth].instrs[m.stack[depth].idx]
          IN  /\ prog.status = "running"
              /\ prog.tape = m.tape /\ prog.out = m.out
              /\ IF get_value(m.tape) # 0
                 THEN /\ Len(prog.stack) = depth + 1
                      /\ Top(prog) = [instrs |-> loop.body, idx |-> 1]
                 ELSE /\ Len(prog.stack) = depth
                      /\ Top(prog).idx = m.stack[depth].idx + 1
                      /\ get_value(prog.tape) = 0
    /\ (src = <<",", "[", "-", "]">> /\ prog.status = "done") =>
          /\ last.n = nops
          /\ prog.tape.cells = zeros(Len(tape.cells))
          /\ prog.tape.pointer = 0

\* C14 witness: `,[-]` on the typed byte 5 has ended after 5 passes.
C14_Witness ==
    /\ src = <<",", "[", "-", "]">>
    /\ prog.status = "done"
    /\ nops = 5 /\ last.n = 5

\* the source characters the span <<off, len>> covers
SpanText(off, len) == SubSeq(src, off + 1, off + len)

\* C16: when a run ends with a fault, the span reported with it is the span
\* of the instruction whose operation returned the Err, at the top level
\* and inside Loops, optimised or not, and that span covers exactly the
\* instruction's source characters.
C16_FaultSpanIsTheInstructions ==
    (prog # Idle /\ prog.status = "fault") =>
        LET ins == Current(prog) IN
        /\ prog.span = <<ins.off, ins.len>>
        /\ IF ins.kind = "Goto"
           THEN SpanText(ins.off, ins.len) = <<"{">> \o ins.name \o <<"}">>
           ELSE /\ ins.len >= 1
                /\ \A c \in Range(SpanText(ins.off, ins.len)) : c = KindChar(ins.kind)

\* the names bound in the alias table al
BoundNames(al) == {p[1] : p \in al}

\* C17: with pre-allocation, once setup has run the names bound in the
\* alias table are the names the parser collected, Loop bodies included;
\* with or without pre-allocation every executed Goto(name) succeeds: it
\* neither faults nor crashes, name is bound afterwards and the pointer is
\* at its address.
C17_EveryGotoResolves ==
    (parsed.status = "ok" /\ prog # Idle) =>
        /\ ~flag.disable_alloc => BoundNames(prog.aliases) = parsed.aliases
        /\ (/\ last.op = "step"
            /\ ~AtEnd(last.pre)
            /\ Current(last.pre).kind = "Goto") =>
              LET name == Current(last.pre).name IN
              /\ prog.status = "running"
              /\ contains_left(prog.aliases, name)
              /\ prog.tape.pointer = get_by_left(prog.aliases, name)

\* C19: every executed Output appends exactly one byte, the value of the
\* current cell, to the output, for each value 0..255, and changes neither
\* tape nor pointer; `+++.` ends with the output <<3>> and pointer 0.
C19_OutputIsOneByte ==
    /\ (/\ last.op = "step"
        /\ ~AtEnd(last.pre)
        /\ Current(last.pre).kind = "Output"
        /\ get_value(last.pre.tape) # None) =>
          /\ prog.out = Append(last.pre.out, get_value(last.pre.tape))
          /\ prog.tape = last.pre.tape
    /\ (src = <<"+", "+", "+", ".">> /\ prog.status = "done") =>
          /\ prog.out = <<3>>
          /\ prog.tape.pointer = 0

---------------------------------------------------------------------------
(* SpecMerge: Parser::parse, optimiser on, on a run of k equal arithmetic  *)
(* or movement characters followed by ".", with the steps of SpecParse     *)

MaxRun == 257       \* longest run of equal characters handed to the optimiser

RunChars == {"+", "-", "<", ">"}

InitMerge ==
    /\ \E c \in RunChars, k \in 1..MaxRun : src = [i \in 1..k |-> c] \o <<".">>
    /\ flag = NoFlags
    /\ parsed = ParserNew
    /\ tape = Idle /\ aliases = {} /\ last = NoCall /\ alive = TRUE /\ nops = 0
    /\ mRaw = Idle /\ mOpt = Idle /\ prog = Idle

SpecMerge == InitMerge /\ [][NextParse]_vars

\* C20: a run of k equal characters "+", "-", "<" or ">" in front of a "."
\* is merged into one instruction whose count is k, for every k, also above
\* 255: the count never wraps.
C20_MergedCountIsRunLength ==
    parsed.status = "ok" =>
        /\ Len(parsed.instructions) = 2
        /\ parsed.instructions[1].kind = LeafKind(src[1])
        /\ parsed.instructions[1].count = Len(src) - 1
        /\ parsed.instructions[2].kind = "Output"

\* the cell Goto(name) moves the pointer of the run m to
Designated(m, name) ==
    Goto(m.tape, m.aliases, name, m.flag.disable_alloc).t.pointer

\* C22: when a Left under the Append policy prepends k cells, every bound
\* alias designates afterwards the address k above the one it designated
\* before, the cell it was bound to; so `{a}+<<{a}.` prints the 1 it wrote
\* at a's cell.
C22_AliasFollowsItsCell ==
    /\ (/\ last.op = "step"
        /\ prog.status = "running"
        /\ ~AtEnd(last.pre)
        /\ Current(last.pre).kind = "Left"
        /\ prog.tape.tape_behaviour = "Append") =>
          LET k == Len(prog.tape.cells) - Len(last.pre.tape.cells) IN
          \A p \in last.pre.aliases :
              Designated(prog, p[1]) = Designated(last.pre, p[1]) + k
    /\ (/\ src = <<"{", "a", "}", "+", "<", "<", "{", "a", "}", ".">>
        /\ prog.status = "done"
        /\ prog.tape.tape_behaviour = "Append") =>
          prog.out = <<1>>

---------------------------------------------------------------------------
(* Properties of the optimiser under SpecParse *)

\* An instruction list with every count erased
RECURSIVE NoCounts(_)
NoCounts(instructions) ==
    [i \in DOMAIN instructions |->
        [instructions[i] EXCEPT !.count = 0, !.body = NoCounts(instructions[i].body)]]

\* The structure of an instruction list: its Loops (with the structure of
\* their bodies), Gotos, Inputs and Outputs one by one and in order, and
\* between them one entry per run of arithmetic or movement instructions
\* of one kind
Skeleton(instructions) == Shape(MergedRuns(NoCounts(instructions)))

\* the tree Parser::parse builds before the optimiser
RawTree == ParseLoop(src, ParserNew, flag.disable_aliases).instructions

\* C24: the optimised tree has the structure of the parsed one: every Loop,
\* Goto, Input and Output is kept as an instruction of its own, in the
\* original order and number, adjacent ones included; no run is merged
\* across one of them, across another kind or across a Loop's bracket; and
\* a Loop's body is optimised within the body.
C24_StructureKept ==
    (parsed.status = "ok" /\ ~flag.disable_optimise) =>
        Skeleton(parsed.instructions) = Skeleton(RawTree)

\* C24 witness: `++..` has been optimised into Add(2), Output, Output.
C24_Witness ==
    /\ src = <<"+", "+", ".", ".">>
    /\ parsed.status = "ok" /\ ~flag.disable_optimise
    /\ Len(parsed.instructions) = 3
    /\ parsed.instructions[1].count = 2

===========================================================================
